---------------------------- MODULE Spec2Model ----------------------------
(***************************************************************************)
(* A model of the combinatorial aggregation and privacy-protection core    *)
(* of synthetic_data/utils.py: genRowList, genAllCombos, countAllCombos    *)
(* (with its joblib worker pool), protect, comboToString,                  *)
(* stringToLengthAndCombo and loadSavedAggregates.                         *)
(*                                                                         *)
(* A Python str is a sequence of one-character strings, so that sorting,   *)
(* splitting and joining are computed on characters as the code does.      *)
(* An (attribute, value) pair is <<attribute, value>>, a row or a combo a  *)
(* sequence of pairs, a dict a function.                                   *)
(***************************************************************************)
EXTENDS Integers, Sequences, FiniteSets, TLC

VARIABLES
    \* genRowList / countAllCombos
    df,                         \* the dataframe: [columns, rows]
    sensitive_zeros,            \* set of column names
    row_list,                   \* genRowList(df, sensitive_zeros)
    reporting_length,           \* the length_limit argument (config: reporting_length)
    jobs,                       \* the parallel_jobs argument of the first and the second call
    run,                        \* which call of countAllCombos is executing (1 or 2)
    pc,                         \* position of the coordinating process
    length_limit,               \* local length_limit (after resolving -1)
    length,                     \* loop variable of countAllCombos
    task,                       \* per row: "pending", "running" or "returned"
    res,                        \* per row: the list a worker returned
    merged,                     \* how many entries of res the reduce loop has consumed
    length_to_combo_to_count,   \* the table under construction
    first_result,               \* the table returned by the first call
    \* genRowList on a column-permuted dataframe
    df_permuted,
    row_list_permuted,
    \* protect
    value,
    threshold,
    precision,
    protected,                  \* [status, ret]: outcome of protect(value, threshold, precision)
    \* comboToString / stringToLengthAndCombo
    combo_tuple,
    combo_string,
    decoded,                    \* [status, length, combo]
    \* loadSavedAggregates
    file,                       \* the lines of the file, header first
    line_no,                    \* the enumerate index i of the next line
    loaded,                     \* length_to_combo_to_count of loadSavedAggregates
    load_status                 \* "reading", "returned", "IndexError", "ValueError"

countVars == <<df, sensitive_zeros, row_list, reporting_length, jobs, run, pc,
               length_limit, length, task, res, merged,
               length_to_combo_to_count, first_result>>
normVars == <<df_permuted, row_list_permuted>>
protectVars == <<value, threshold, precision, protected>>
codecVars == <<combo_tuple, combo_string, decoded>>
loadVars == <<file, line_no, loaded, load_status>>
vars == <<countVars, normVars, protectVars, codecVars, loadVars>>

-----------------------------------------------------------------------------
(* Bounds of the model *)

MaxRows == 3          \* rows of the dataframe are 1..MaxRows
MaxLength == 2        \* reporting_length is -1 or 1..MaxLength
MaxJobs == 2          \* parallel_jobs is 1..MaxJobs
MaxCount == 25        \* protect: value is -MaxCount..MaxCount
MaxThreshold == 12    \* protect: threshold is -MaxThreshold..MaxThreshold
MaxPrecision == 10    \* protect: precision is -MaxPrecision..MaxPrecision
MaxComboLen == 2      \* codec: combos of 0..MaxComboLen pairs
MaxLines == 2         \* loader: data lines after the header

-----------------------------------------------------------------------------
(* Python str as sequences of characters *)

\* ord(c) of the characters the model uses
Ord(c) ==
    CASE c = "\t" -> 9
      [] c = "\n" -> 10
      [] c = " " -> 32
      [] c = "0" -> 48
      [] c = "1" -> 49
      [] c = "2" -> 50
      [] c = ":" -> 58
      [] c = ";" -> 59
      [] c = "A" -> 65
      [] c = "B" -> 66
      [] c = "a" -> 97
      [] c = "b" -> 98
      [] c = "x" -> 120
      [] c = "y" -> 121

\* str.lower() of one character
LowerChar(c) ==
    CASE c = "A" -> "a"
      [] c = "B" -> "b"
      [] OTHER -> c

\* str.lower()
Lower(s) == [i \in 1..Len(s) |-> LowerChar(s[i])]

\* s < t on Python strings: lexicographic on code points
RECURSIVE StrLess(_, _)
StrLess(s, t) ==
    IF t = <<>> THEN FALSE
    ELSE IF s = <<>> THEN TRUE
    ELSE IF Ord(s[1]) # Ord(t[1]) THEN Ord(s[1]) < Ord(t[1])
    ELSE StrLess(Tail(s), Tail(t))

\* the sort key  lambda x: f'{x[0]}:{x[1]}'.lower()
SortKey(x) == Lower(x[1] \o <<":">> \o x[2])

\* sorted(res, key=SortKey): Python's sort is stable, so an element goes after
\* every element already placed whose key is not greater than its own
RECURSIVE sorted(_)
sorted(s) ==
    IF s = <<>> THEN <<>>
    ELSE LET front == sorted(SubSeq(s, 1, Len(s) - 1))
             x == s[Len(s)]
             pos == Cardinality({i \in 1..Len(front) :
                                   ~StrLess(SortKey(x), SortKey(front[i]))})
         IN  SubSeq(front, 1, pos) \o <<x>> \o SubSeq(front, pos + 1, Len(front))

-----------------------------------------------------------------------------
(* protect *)

Abs(n) == IF n < 0 THEN -n ELSE n

\* round half up: the rounding a port to another numeric library would give
roundHalfUp(n, d) ==
    LET num == IF d < 0 THEN -n ELSE n
        den == Abs(d)
    IN  (2 * num + den) \div (2 * den)

\* round(n / d) for d # 0: Python 3 true division, then round() to the nearest
\* integer with ties going to the even one.  n / d is the double nearest to the
\* quotient; for |n|, |d| < 2^26 a quotient that is not a half-integer is at
\* least 1/(2|d|) away from one, so the double rounds as the exact quotient does.
round(n, d) ==
    LET num == IF d < 0 THEN -n ELSE n
        den == Abs(d)
        q == num \div den
        r == num % den
    IN  IF 2 * r < den THEN q
        ELSE IF 2 * r > den THEN q + 1
        ELSE IF q % 2 = 0 THEN q ELSE q + 1

\* protect with the threshold tested on the raw value
protectThresholdOnRaw(v, t, p) ==
    IF p = 0 THEN [status |-> "ZeroDivisionError", ret |-> 0]
    ELSE LET rounded == round(v, p) * p
         IN  [status |-> "returned", ret |-> IF v >= t THEN rounded ELSE 0]

\* protect that clamps a negative precision to 0 before dividing
protectClampedPrecision(v, t, p) ==
    IF p <= 0 THEN [status |-> "ZeroDivisionError", ret |-> 0]
    ELSE LET rounded == round(v, p) * p
         IN  [status |-> "returned", ret |-> IF rounded >= t THEN rounded ELSE 0]

\* protect(value, threshold, precision): value / precision raises
\* ZeroDivisionError when precision is 0
protect(v, t, p) ==
    IF p = 0 THEN [status |-> "ZeroDivisionError", ret |-> 0]
    ELSE LET rounded == round(v, p) * p
         IN  [status |-> "returned", ret |-> IF rounded >= t THEN rounded ELSE 0]

-----------------------------------------------------------------------------
(* genRowList *)

\* the (column, value) cells of one dataframe row that genRowList keeps, in
\* column order:  val != '' and (c in sensitive_zeros or val != '0')
RECURSIVE KeptCells(_, _, _)
KeptCells(columns, cells, zeros) ==
    IF columns = <<>> THEN <<>>
    ELSE LET c == Head(columns)
             val == Head(cells)
             rest == KeptCells(Tail(columns), Tail(cells), zeros)
         IN  IF val # <<>> /\ (c \in zeros \/ val # <<"0">>)
             THEN <<<<c, val>>>> \o rest
             ELSE rest

\* genRowList(df, sensitive_zeros)
genRowList(d, zeros) ==
    [r \in 1..Len(d.rows) |-> sorted(KeptCells(d.columns, d.rows[r], zeros))]

-----------------------------------------------------------------------------
(* genAllCombos *)

\* itertools.combinations(row, k): the k-element subsequences of row, in
\* lexicographic order of their positions
RECURSIVE combinations(_, _)
combinations(row, k) ==
    IF k = 0 THEN << <<>> >>
    ELSE IF Len(row) < k THEN <<>>
    ELSE LET with == combinations(Tail(row), k - 1)
         IN  [i \in 1..Len(with) |-> <<Head(row)>> \o with[i]]
             \o combinations(Tail(row), k)

\* genAllCombos whose shortcut is taken by every row at least as long as length
genAllCombosWholeRow(row, len) ==
    IF Len(row) >= len
    THEN << sorted(row) >>
    ELSE LET cs == combinations(row, len)
         IN  [i \in 1..Len(cs) |-> sorted(cs[i])]

\* genAllCombos(row, length)
genAllCombos(row, len) ==
    IF Len(row) = len
    THEN << sorted(row) >>
    ELSE LET cs == combinations(row, len)
         IN  [i \in 1..Len(cs) |-> sorted(cs[i])]

-----------------------------------------------------------------------------
(* countAllCombos: the coordinating process and the joblib worker pool *)

EmptyDict == [c \in {} |-> 0]

\* d[combo] = 1 in place of d[combo] += 1
IncrementAssign(d, combo) ==
    [c \in DOMAIN d \cup {combo} |-> IF c = combo THEN 1 ELSE d[c]]

\* d[combo] += 1 on a defaultdict(int)
Increment(d, combo) ==
    [c \in DOMAIN d \cup {combo} |->
        (IF c \in DOMAIN d THEN d[c] ELSE 0) + (IF c = combo THEN 1 ELSE 0)]

\* for combo in combos: d[combo] += 1
RECURSIVE IncrementAll(_, _)
IncrementAll(d, combos) ==
    IF combos = <<>> THEN d
    ELSE IncrementAll(Increment(d, Head(combos)), Tail(combos))

\* d[k] = v on a dict
Store(d, k, v) == [x \in DOMAIN d \cup {k} |-> IF x = k THEN v ELSE d[x]]

\* max([len(x) for x in row_list])
MaxRowLen(rows) ==
    CHOOSE m \in {Len(rows[i]) : i \in DOMAIN rows} :
        \A i \in DOMAIN rows : Len(rows[i]) <= m

\* the rows handed to workers when they are cut into n_jobs equal chunks and
\* the remainder is left out
TasksEqualChunks(rows, n_jobs) == 1..((Len(rows) \div n_jobs) * n_jobs)

\* the tasks of one Parallel call: one delayed genAllCombos per row of row_list
Tasks(rows, n_jobs) == 1..Len(rows)

\* a Parallel call that hands back its list once every task has been dispatched
AllDispatched(t) == \A i \in DOMAIN t : t[i] # "pending"

\* Parallel(...)(...) returns its list once every task has returned
AllReturned(t) == \A i \in DOMAIN t : t[i] = "returned"

n_jobs == jobs[run]

-----------------------------------------------------------------------------
(* Inputs *)

\* the column layouts of the dataframes
ColumnLayouts ==
    { << <<"A">>, <<"B">> >>, << <<"A">>, <<"a">> >> }

\* the rows drawn for a layout, each a tuple of cell strings
RowCells(columns) ==
    IF columns[2] = <<"B">>
    THEN { << <<"1">>, <<"x">> >>, << <<"1">>, <<"y">> >>, << <<>>, <<"0">> >> }
    ELSE { << <<"1">>, <<"1">> >>, << <<"1">>, <<>> >> }

Dataframes ==
    UNION { { [columns |-> columns, rows |-> rows] :
                rows \in UNION { [1..n -> RowCells(columns)] : n \in 1..MaxRows } } :
            columns \in ColumnLayouts }

\* the variables a specification does not use
CountIdle ==
    /\ df = [columns |-> <<>>, rows |-> <<>>]
    /\ sensitive_zeros = {}
    /\ row_list = <<>>
    /\ reporting_length = 0
    /\ jobs = <<1, 1>>
    /\ run = 1
    /\ pc = "idle"
    /\ length_limit = 0
    /\ length = 0
    /\ task = <<>>
    /\ res = <<>>
    /\ merged = 0
    /\ length_to_combo_to_count = EmptyDict
    /\ first_result = EmptyDict

NormIdle ==
    /\ df_permuted = [columns |-> <<>>, rows |-> <<>>]
    /\ row_list_permuted = <<>>

ProtectIdle ==
    /\ value = 0
    /\ threshold = 0
    /\ precision = 1
    /\ protected = [status |-> "none", ret |-> 0]

CodecIdle ==
    /\ combo_tuple = <<>>
    /\ combo_string = <<>>
    /\ decoded = [status |-> "none", length |-> 0, combo |-> <<>>]

LoadIdle ==
    /\ file = <<>>
    /\ line_no = 0
    /\ loaded = EmptyDict
    /\ load_status = "idle"

-----------------------------------------------------------------------------
(* Spec: genRowList, then countAllCombos called twice on the same row list,  *)
(* with parallel_jobs = jobs[1] and then jobs[2]                             *)

Init ==
    /\ df \in Dataframes
    /\ sensitive_zeros \in { {}, { <<"B">> } }
    /\ row_list = <<>>
    /\ reporting_length \in {-1} \cup 1..MaxLength
    /\ jobs \in (1..MaxJobs) \X (1..MaxJobs)
    /\ run = 1
    /\ pc = "rows"
    /\ length_limit = 0
    /\ length = 0
    /\ task = <<>>
    /\ res = <<>>
    /\ merged = 0
    /\ length_to_combo_to_count = EmptyDict
    /\ first_result = EmptyDict
    /\ NormIdle /\ ProtectIdle /\ CodecIdle /\ LoadIdle

\* row_list = genRowList(df, sensitive_zeros)
GenRowList ==
    /\ pc = "rows"
    /\ row_list' = genRowList(df, sensitive_zeros)
    /\ pc' = "call"
    /\ UNCHANGED <<df, sensitive_zeros, reporting_length, jobs, run, length_limit,
                   length, task, res, merged, length_to_combo_to_count, first_result>>
    /\ UNCHANGED <<normVars, protectVars, codecVars, loadVars>>

\* countAllCombos, lines 138-140: the empty table and the resolved length_limit
Enter ==
    /\ pc = "call"
    /\ length_to_combo_to_count' = EmptyDict
    /\ length_limit' = IF reporting_length = -1 THEN MaxRowLen(row_list)
                       ELSE reporting_length
    /\ length' = 1
    /\ pc' = "for"
    /\ UNCHANGED <<df, sensitive_zeros, row_list, reporting_length, jobs, run,
                   task, res, merged, first_result>>
    /\ UNCHANGED <<normVars, protectVars, codecVars, loadVars>>

\* line 141, 143: the next length's Parallel call starts with every task
\* pending, or the loop is over and the table is returned (line 149)
ForLength ==
    /\ pc = "for"
    /\ IF length <= length_limit
       THEN /\ task' = [i \in Tasks(row_list, n_jobs) |-> "pending"]
            /\ res' = [i \in 1..Len(row_list) |-> <<>>]
            /\ pc' = "map"
       ELSE /\ pc' = "done"
            /\ UNCHANGED <<task, res>>
    /\ UNCHANGED <<df, sensitive_zeros, row_list, reporting_length, jobs, run,
                   length_limit, length, merged, length_to_combo_to_count,
                   first_result>>
    /\ UNCHANGED <<normVars, protectVars, codecVars, loadVars>>

\* joblib hands the next task of the generator to a free worker: at most
\* n_jobs tasks run at once
Dispatch ==
    /\ pc = "map"
    /\ Cardinality({i \in DOMAIN task : task[i] = "running"}) < n_jobs
    /\ \E i \in DOMAIN task :
        /\ task[i] = "pending"
        /\ \A j \in DOMAIN task : j < i => task[j] # "pending"
        /\ task' = [task EXCEPT ![i] = "running"]
    /\ UNCHANGED <<df, sensitive_zeros, row_list, reporting_length, jobs, run, pc,
                   length_limit, length, res, merged, length_to_combo_to_count,
                   first_result>>
    /\ UNCHANGED <<normVars, protectVars, codecVars, loadVars>>

\* a worker finishes genAllCombos(row, length); running tasks finish in any
\* order and each result goes to its task's place in the list
WorkerReturn ==
    /\ \E i \in DOMAIN task :
        /\ task[i] = "running"
        /\ task' = [task EXCEPT ![i] = "returned"]
        /\ res' = [res EXCEPT ![i] = genAllCombos(row_list[i], length)]
    /\ UNCHANGED <<df, sensitive_zeros, row_list, reporting_length, jobs, run, pc,
                   length_limit, length, merged, length_to_combo_to_count,
                   first_result>>
    /\ UNCHANGED <<normVars, protectVars, codecVars, loadVars>>

\* line 143-144: the Parallel call returns res, and the coordinator creates
\* the length's defaultdict(int)
Join ==
    /\ pc = "map"
    /\ AllReturned(task)
    /\ length_to_combo_to_count' = Store(length_to_combo_to_count, length, EmptyDict)
    /\ merged' = 0
    /\ pc' = "reduce"
    /\ UNCHANGED <<df, sensitive_zeros, row_list, reporting_length, jobs, run,
                   length_limit, length, task, res, first_result>>
    /\ UNCHANGED <<normVars, protectVars, codecVars, loadVars>>

\* lines 145-147: one iteration of  for combos in res
Merge ==
    /\ pc = "reduce"
    /\ merged < Len(res)
    /\ length_to_combo_to_count' =
          Store(length_to_combo_to_count, length,
                IncrementAll(length_to_combo_to_count[length], res[merged + 1]))
    /\ merged' = merged + 1
    /\ UNCHANGED <<df, sensitive_zeros, row_list, reporting_length, jobs, run, pc,
                   length_limit, length, task, res, first_result>>
    /\ UNCHANGED <<normVars, protectVars, codecVars, loadVars>>

\* res is exhausted: back to line 141 with the next length
NextLength ==
    /\ pc = "reduce"
    /\ merged = Len(res)
    /\ length' = length + 1
    /\ pc' = "for"
    /\ UNCHANGED <<df, sensitive_zeros, row_list, reporting_length, jobs, run,
                   length_limit, task, res, merged, length_to_combo_to_count,
                   first_result>>
    /\ UNCHANGED <<normVars, protectVars, codecVars, loadVars>>

\* the caller keeps the first call's table and calls countAllCombos again on
\* the same row_list and length limit with the second parallel_jobs
SecondCall ==
    /\ pc = "done"
    /\ run = 1
    /\ first_result' = length_to_combo_to_count
    /\ run' = 2
    /\ pc' = "call"
    /\ UNCHANGED <<df, sensitive_zeros, row_list, reporting_length, jobs,
                   length_limit, length, task, res, merged,
                   length_to_combo_to_count>>
    /\ UNCHANGED <<normVars, protectVars, codecVars, loadVars>>

Next ==
    \/ GenRowList
    \/ Enter
    \/ ForLength
    \/ Dispatch
    \/ WorkerReturn
    \/ Join
    \/ Merge
    \/ NextLength
    \/ SecondCall

Spec == Init /\ [][Next]_vars

-----------------------------------------------------------------------------
(* Properties of countAllCombos *)

Range(f) == { f[i] : i \in DOMAIN f }

\* a call of countAllCombos has returned its table
Returned == pc = "done"

\* the count the table holds for combo c at length k (a defaultdict reads 0
\* for a combo it does not hold)
CountOf(table, k, c) ==
    IF k \in DOMAIN table /\ c \in DOMAIN table[k] THEN table[k][c] ELSE 0

\* every (column, value) pair a cell of the dataframe's columns can give
PairUniverse ==
    { <<df.columns[j], cells[j]>> :
        j \in 1..Len(df.columns), cells \in RowCells(df.columns) }

\* the number of rows of row_list that hold every pair of the set S
RowsContaining(S) ==
    Cardinality({ i \in 1..Len(row_list) : S \subseteq Range(row_list[i]) })

\* a tuple of pairs in canonical order: no pair's key is below its predecessor's
Canonical(c) ==
    \A i \in 1..(Len(c) - 1) : ~StrLess(SortKey(c[i + 1]), SortKey(c[i]))

RECURSIVE SumOver(_, _)
SumOver(f, S) ==
    IF S = {} THEN 0
    ELSE LET x == CHOOSE y \in S : TRUE
         IN  f[x] + SumOver(f, S \ {x})

\* the number of k-element subsets of an n-element row
RECURSIVE Choose(_, _)
Choose(n, k) ==
    IF k = 0 THEN 1
    ELSE IF n < k THEN 0
    ELSE Choose(n - 1, k - 1) + Choose(n - 1, k)

\* C1: two calls of countAllCombos on the same row list and length limit
\* return the same table (same lengths, same combos, same counts) whatever
\* their parallel_jobs and whatever order their workers finished in.
C1_SameTableForAnyJobs ==
    (Returned /\ run = 2) => length_to_combo_to_count = first_result

\* C1 witness: the second call has returned, the two calls used different
\* worker counts, and the table holds a combo of two pairs counted in two rows.
C1_Witness ==
    /\ Returned /\ run = 2
    /\ jobs[1] # jobs[2]
    /\ Len(row_list) = MaxRows
    /\ 2 \in DOMAIN first_result
    /\ \E c \in DOMAIN first_result[2] : first_result[2][c] = 2

\* C2: in the returned table, for every length k in 1..length_limit and every
\* set S of k pairs: when no row holds all of S the table has no combo made of
\* S, otherwise it has exactly one, in canonical order, and its count is the
\* number of rows that hold all of S; and every combo stored at k has k pairs.
C2_CountIsRowsContaining ==
    Returned =>
        /\ DOMAIN length_to_combo_to_count = 1..length_limit
        /\ \A k \in 1..length_limit :
            /\ \A c \in DOMAIN length_to_combo_to_count[k] :
                 Len(c) = k /\ Cardinality(Range(c)) = k
            /\ \A S \in SUBSET PairUniverse :
                 Cardinality(S) = k =>
                    LET stored == { c \in DOMAIN length_to_combo_to_count[k] :
                                      Range(c) = S }
                    IN  IF RowsContaining(S) = 0
                        THEN stored = {}
                        ELSE /\ Cardinality(stored) = 1
                             /\ \A c \in stored :
                                  /\ Canonical(c)
                                  /\ length_to_combo_to_count[k][c] = RowsContaining(S)

\* C2 witness: records [(A,1),(B,x)], [(A,1),(B,y)], [(A,1),(B,x)] counted at
\* length 2 give {((A,1),(B,x)): 2, ((A,1),(B,y)): 1}.
C2_Witness ==
    /\ Returned
    /\ row_list = << << << <<"A">>, <<"1">> >>, << <<"B">>, <<"x">> >> >>,
                     << << <<"A">>, <<"1">> >>, << <<"B">>, <<"y">> >> >>,
                     << << <<"A">>, <<"1">> >>, << <<"B">>, <<"x">> >> >> >>
    /\ 2 \in DOMAIN length_to_combo_to_count
    /\ DOMAIN length_to_combo_to_count[2] =
          { << << <<"A">>, <<"1">> >>, << <<"B">>, <<"x">> >> >>,
            << << <<"A">>, <<"1">> >>, << <<"B">>, <<"y">> >> >> }
    /\ length_to_combo_to_count[2][<< << <<"A">>, <<"1">> >>, << <<"B">>, <<"x">> >> >>] = 2
    /\ length_to_combo_to_count[2][<< << <<"A">>, <<"1">> >>, << <<"B">>, <<"y">> >> >>] = 1

\* c without its j-th pair
Without(c, j) == SubSeq(c, 1, j - 1) \o SubSeq(c, j + 1, Len(c))

\* C3: in the returned table, a combo of k >= 2 pairs is counted at most as
\* often as each combo of k-1 pairs obtained by removing one of its pairs.
C3_SubsetMonotone ==
    Returned =>
        \A k \in DOMAIN length_to_combo_to_count :
            k >= 2 =>
                \A c \in DOMAIN length_to_combo_to_count[k] :
                    \A j \in 1..Len(c) :
                        length_to_combo_to_count[k][c]
                            <= CountOf(length_to_combo_to_count, k - 1, Without(c, j))

\* C3 witness: a returned table with a combo of two pairs counted strictly
\* less often than one of its sub-combos.
C3_Witness ==
    /\ Returned
    /\ 2 \in DOMAIN length_to_combo_to_count
    /\ \E c \in DOMAIN length_to_combo_to_count[2] :
         \E j \in 1..Len(c) :
            /\ length_to_combo_to_count[2][c] >= 1
            /\ length_to_combo_to_count[2][c]
                  < CountOf(length_to_combo_to_count, 1, Without(c, j))

\* the table holds, for length k, the merge of every row's combos
MergeComplete(k) ==
    /\ k \in DOMAIN length_to_combo_to_count
    /\ SumOver(length_to_combo_to_count[k], DOMAIN length_to_combo_to_count[k])
         = SumOver([i \in 1..Len(row_list) |-> Choose(Len(row_list[i]), k)],
                   1..Len(row_list))

C10_State ==
    /\ pc = "reduce" =>
          /\ DOMAIN task = 1..Len(row_list)
          /\ \A i \in DOMAIN task : task[i] = "returned"
    /\ (\E i \in DOMAIN task : task[i] = "running") =>
          /\ pc = "map"
          /\ DOMAIN length_to_combo_to_count = 1..(length - 1)
          /\ \A k \in 1..(length - 1) : MergeComplete(k)

C10_Step ==
    /\ length_to_combo_to_count' # length_to_combo_to_count =>
          /\ task' = task
          /\ \A i \in DOMAIN task : task[i] # "running"
    /\ task' # task => length_to_combo_to_count' = length_to_combo_to_count
    /\ pc # "call" =>
          \/ length' = length
          \/ length' = length + 1 /\ pc = "reduce" /\ merged = Len(row_list)

\* C10: the coordinator touches the count map of a length only when every
\* worker task of that length has returned; a step of a worker never changes
\* a count map; a task runs only while the maps of all smaller lengths are
\* completely merged; and the lengths are taken one after another, each after
\* the merge of the one before.
C10_ReduceAfterWorkers == [](C10_State) /\ [][C10_Step]_vars

\* C10 witness: with two workers, the coordinator is merging the results of
\* length 2, having consumed at least one of them.
C10_Witness ==
    /\ pc = "reduce"
    /\ length = 2
    /\ merged >= 1
    /\ jobs[run] = 2
    /\ Len(row_list) = MaxRows

-----------------------------------------------------------------------------
(* SpecProtect: protect applied to every value, threshold and precision of   *)
(* the bounds                                                                *)

InitProtect ==
    /\ value \in -MaxCount..MaxCount
    /\ threshold \in -MaxThreshold..MaxThreshold
    /\ precision \in -MaxPrecision..MaxPrecision
    /\ protected = [status |-> "none", ret |-> 0]
    /\ CountIdle /\ NormIdle /\ CodecIdle /\ LoadIdle

\* protected = protect(value, threshold, precision)
Protect ==
    /\ protected.status = "none"
    /\ protected' = protect(value, threshold, precision)
    /\ UNCHANGED <<value, threshold, precision>>
    /\ UNCHANGED <<countVars, normVars, codecVars, loadVars>>

NextProtect == Protect

SpecProtect == InitProtect /\ [][NextProtect]_vars

\* n is k * p for some integer k
MultipleOf(n, p) == \E k \in -(Abs(n))..Abs(n) : n = k * p

NearestFactors ==
    LET ks == -(MaxCount + 1)..(MaxCount + 1)
        dist(k) == Abs(value - k * precision)
        nearest == { k \in ks : \A j \in ks : dist(k) <= dist(j) }
    IN  IF Cardinality(nearest) = 1 THEN nearest
        ELSE { k \in nearest : k % 2 = 0 }

\* C5: for a precision other than 0, protect takes the multiple of precision
\* nearest to value, on an exact tie the even multiple, and returns it when it
\* is >= threshold and 0 otherwise; protect(17, 10, 10) = 20 and
\* protect(4, 10, 10) = 0.
C5_RoundHalfEven ==
    (protected.status # "none" /\ precision # 0) =>
        /\ Cardinality(NearestFactors) = 1
        /\ \A k \in NearestFactors :
              protected.ret = IF k * precision >= threshold THEN k * precision ELSE 0
        /\ (value = 17 /\ threshold = 10 /\ precision = 10 => protected.ret = 20)
        /\ (value = 4 /\ threshold = 10 /\ precision = 10 => protected.ret = 0)

\* C5 witness: 25 lies halfway between 20 and 30 and is reported as 20, the
\* even multiple of 10.
C5_Witness ==
    /\ protected.status = "returned"
    /\ value = 25 /\ threshold = 10 /\ precision = 10
    /\ protected.ret = 20

-----------------------------------------------------------------------------
(* comboToString and stringToLengthAndCombo *)

\* s.split(sep) for a one-character sep: the pieces between the separators,
\* [''] for the empty string
RECURSIVE split(_, _)
split(s, sep) ==
    IF \A i \in 1..Len(s) : s[i] # sep THEN << s >>
    ELSE LET at == CHOOSE i \in 1..Len(s) :
                      s[i] = sep /\ \A j \in 1..(i - 1) : s[j] # sep
         IN  << SubSeq(s, 1, at - 1) >> \o split(SubSeq(s, at + 1, Len(s)), sep)

\* the loop of comboToString:  combo_string += f'{col}:{val};'
RECURSIVE JoinPairs(_)
JoinPairs(combo) ==
    IF combo = <<>> THEN <<>>
    ELSE Head(combo)[1] \o <<":">> \o Head(combo)[2] \o <<";">> \o JoinPairs(Tail(combo))

\* comboToString that keeps the trailing ';'
comboToStringTrailing(combo) == JoinPairs(combo)

\* comboToString(combo_tuple):  return combo_string[:-1]
comboToString(combo) ==
    LET joined == JoinPairs(combo)
    IN  SubSeq(joined, 1, Len(joined) - 1)

\* the loop of stringToLengthAndCombo over combo_string.split(';'): a segment
\* that does not split into exactly two fields at ':' is left out
RECURSIVE ComboList(_)
ComboList(segments) ==
    IF segments = <<>> THEN <<>>
    ELSE LET parts == split(Head(segments), ":")
         IN  (IF Len(parts) = 2 THEN << <<parts[1], parts[2]>> >> ELSE <<>>)
             \o ComboList(Tail(segments))

\* stringToLengthAndCombo(combo_string): (length, combo_tuple)
stringToLengthAndCombo(str) ==
    [length |-> Len(split(str, ";")), combo |-> ComboList(split(str, ";"))]

\* the attribute and value strings drawn for the codec
CodecStrings ==
    { <<>>, <<"a">>, <<"1">>, <<"a", "b">>, <<":">>, <<"a", ";">> }

CodecPairs == CodecStrings \X CodecStrings

CodecCombos == UNION { [1..n -> CodecPairs] : n \in 0..MaxComboLen }

InitCodec ==
    /\ combo_tuple \in CodecCombos
    /\ combo_string = <<>>
    /\ decoded = [status |-> "none", length |-> 0, combo |-> <<>>]
    /\ CountIdle /\ NormIdle /\ ProtectIdle /\ LoadIdle

\* combo_string = comboToString(combo_tuple)
Encode ==
    /\ decoded.status = "none"
    /\ combo_string' = comboToString(combo_tuple)
    /\ decoded' = [decoded EXCEPT !.status = "encoded"]
    /\ UNCHANGED combo_tuple
    /\ UNCHANGED <<countVars, normVars, protectVars, loadVars>>

\* (length, combo) = stringToLengthAndCombo(combo_string)
Decode ==
    /\ decoded.status = "encoded"
    /\ decoded' = [status |-> "decoded",
                   length |-> stringToLengthAndCombo(combo_string).length,
                   combo |-> stringToLengthAndCombo(combo_string).combo]
    /\ UNCHANGED <<combo_tuple, combo_string>>
    /\ UNCHANGED <<countVars, normVars, protectVars, loadVars>>

NextCodec == Encode \/ Decode

SpecCodec == InitCodec /\ [][NextCodec]_vars

\* no attribute or value string of the combo holds ':' or ';'
DelimiterFree(combo) ==
    \A i \in 1..Len(combo) : \A f \in 1..2 : \A j \in 1..Len(combo[i][f]) :
        combo[i][f][j] \notin {":", ";"}

\* C6 as stated: every delimiter-free combo, of any length, decodes from its
\* string to (len(c), c).
C6_AsStated ==
    (decoded.status = "decoded" /\ DelimiterFree(combo_tuple)) =>
        /\ decoded.length = Len(combo_tuple)
        /\ decoded.combo = combo_tuple

\* C6 amended: every delimiter-free combo of at least one pair, empty
\* attribute or value strings included, decodes from its string to (len(c), c).
C6_RoundTripNonEmpty ==
    (decoded.status = "decoded" /\ DelimiterFree(combo_tuple) /\ combo_tuple # <<>>) =>
        /\ decoded.length = Len(combo_tuple)
        /\ decoded.combo = combo_tuple

\* C6 witness: a delimiter-free combo of two pairs, one with an empty value,
\* has been encoded and decoded back to itself.
C6_Witness ==
    /\ decoded.status = "decoded"
    /\ DelimiterFree(combo_tuple)
    /\ Len(combo_tuple) = 2
    /\ combo_tuple[1][2] = <<>>
    /\ combo_tuple[2][1] = <<"a", "b">>
    /\ decoded.length = 2
    /\ decoded.combo = combo_tuple

-----------------------------------------------------------------------------
(* SpecNormalize: genRowList on a one-row dataframe and on the same          *)
(* dataframe with its columns in another order                               *)

AttributeNames == { <<"A">>, <<"a">>, <<"B">> }

NormCellValues == { <<>>, <<"0">>, <<"1">> }

\* the orders the columns of an n-column dataframe can be put in
ColumnOrders(n) ==
    { f \in [1..n -> 1..n] : \A i, j \in 1..n : i # j => f[i] # f[j] }

\* the dataframe d with its columns (and the cells under them) in the order f
PermuteColumns(d, f) ==
    [columns |-> [j \in 1..Len(d.columns) |-> d.columns[f[j]]],
     rows |-> [r \in 1..Len(d.rows) |->
                 [j \in 1..Len(d.columns) |-> d.rows[r][f[j]]]]]

\* one-row dataframes over two or three distinct column names
NormDataframes ==
    UNION { { [columns |-> columns, rows |-> << cells >>] :
                columns \in { c \in [1..n -> AttributeNames] :
                                \A i, j \in 1..n : i # j => c[i] # c[j] },
                cells \in [1..n -> NormCellValues] } :
            n \in 2..Cardinality(AttributeNames) }

InitNormalize ==
    /\ df \in NormDataframes
    /\ sensitive_zeros \in { {}, { <<"B">> } }
    /\ df_permuted \in { PermuteColumns(df, f) : f \in ColumnOrders(Len(df.columns)) }
    /\ row_list = <<>>
    /\ row_list_permuted = <<>>
    /\ pc = "normalize"
    /\ reporting_length = 0
    /\ jobs = <<1, 1>>
    /\ run = 1
    /\ length_limit = 0
    /\ length = 0
    /\ task = <<>>
    /\ res = <<>>
    /\ merged = 0
    /\ length_to_combo_to_count = EmptyDict
    /\ first_result = EmptyDict
    /\ ProtectIdle /\ CodecIdle /\ LoadIdle

\* row_list = genRowList(df, sensitive_zeros)
Normalize ==
    /\ pc = "normalize"
    /\ row_list' = genRowList(df, sensitive_zeros)
    /\ pc' = "normalize permuted"
    /\ UNCHANGED <<df, sensitive_zeros, reporting_length, jobs, run, length_limit,
                   length, task, res, merged, length_to_combo_to_count, first_result>>
    /\ UNCHANGED <<df_permuted, row_list_permuted>>
    /\ UNCHANGED <<protectVars, codecVars, loadVars>>

\* row_list_permuted = genRowList(df_permuted, sensitive_zeros)
NormalizePermuted ==
    /\ pc = "normalize permuted"
    /\ row_list_permuted' = genRowList(df_permuted, sensitive_zeros)
    /\ pc' = "normalized"
    /\ UNCHANGED <<df, sensitive_zeros, row_list, reporting_length, jobs, run,
                   length_limit, length, task, res, merged,
                   length_to_combo_to_count, first_result>>
    /\ UNCHANGED df_permuted
    /\ UNCHANGED <<protectVars, codecVars, loadVars>>

NextNormalize == Normalize \/ NormalizePermuted

SpecNormalize == InitNormalize /\ [][NextNormalize]_vars

\* C7: a row and the same row with its columns in another order normalize to
\* the same sequence of pairs, for every set of distinct column names.
C7_AsStated ==
    pc = "normalized" => row_list = row_list_permuted

-----------------------------------------------------------------------------
(* SpecLoad: loadSavedAggregates reading a file line by line                 *)

Whitespace == { " ", "\t", "\n" }

Digits == { "0", "1", "2" }

\* x.strip()
RECURSIVE strip(_)
strip(s) ==
    IF s = <<>> THEN s
    ELSE IF s[1] \in Whitespace THEN strip(Tail(s))
    ELSE IF s[Len(s)] \in Whitespace THEN strip(SubSeq(s, 1, Len(s) - 1))
    ELSE s

\* int(s) succeeds: the stripped strings of the model's lines that int()
\* accepts are the non-empty strings of digits
IsInt(s) == s # <<>> /\ \A i \in 1..Len(s) : s[i] \in Digits

DigitValue(c) == Ord(c) - Ord("0")

\* int(s) of a string of digits
RECURSIVE int(_)
int(s) ==
    IF s = <<>> THEN 0
    ELSE 10 * int(SubSeq(s, 1, Len(s) - 1)) + DigitValue(s[Len(s)])

\* parts = [x.strip() for x in line.split('\t')]
Parts(line) ==
    LET cols == split(line, "\t")
    IN  [i \in 1..Len(cols) |-> strip(cols[i])]

HeaderLine == <<"a", "\t", "b", "\n">>

\* the data lines drawn: two well-formed lines; a line with one column; a
\* non-numeric count; an empty count; an empty combo string; a blank line; a
\* segment without ':'; a line with three columns
DataLines ==
    { <<"a", ":", "1", "\t", "2", "\n">>,
      <<"a", ":", "1", ";", "b", ":", "x", "\t", "1", "0", "\n">>,
      <<"a", ":", "1", "\n">>,
      <<"a", ":", "1", "\t", "x", "\n">>,
      <<"a", ":", "1", "\t", "\n">>,
      <<"\t", "2", "\n">>,
      <<"\n">>,
      <<"a", ":", "1", ";", "b", "\t", "2", "\n">>,
      <<"b", ":", "x", "\t", "2", "\t", "1", "\n">> }

InitLoad ==
    /\ file \in { <<HeaderLine>> \o lines :
                    lines \in UNION { [1..n -> DataLines] : n \in 0..MaxLines } }
    /\ line_no = 0
    /\ loaded = EmptyDict
    /\ load_status = "reading"
    /\ CountIdle /\ NormIdle /\ ProtectIdle /\ CodecIdle

\* lines 214-216:  if i == 0: continue
SkipHeader ==
    /\ load_status = "reading"
    /\ line_no = 0
    /\ line_no < Len(file)
    /\ line_no' = line_no + 1
    /\ UNCHANGED <<file, loaded, load_status>>
    /\ UNCHANGED <<countVars, normVars, protectVars, codecVars>>

\* lines 217-220 for one data line: parts[1] raises IndexError on a line
\* without a tab, int(parts[1]) raises ValueError on a count that is no number
ReadLine ==
    /\ load_status = "reading"
    /\ line_no > 0
    /\ line_no < Len(file)
    /\ LET parts == Parts(file[line_no + 1])
           lc == stringToLengthAndCombo(parts[1])
       IN  IF Len(parts[1]) > 0
           THEN IF Len(parts) < 2
                THEN load_status' = "IndexError" /\ UNCHANGED <<loaded, line_no>>
                ELSE IF ~IsInt(parts[2])
                THEN load_status' = "ValueError" /\ UNCHANGED <<loaded, line_no>>
                ELSE /\ loaded' =
                          Store(loaded, lc.length,
                                Store(IF lc.length \in DOMAIN loaded
                                      THEN loaded[lc.length] ELSE EmptyDict,
                                      lc.combo, int(parts[2])))
                     /\ line_no' = line_no + 1
                     /\ UNCHANGED load_status
           ELSE /\ line_no' = line_no + 1
                /\ UNCHANGED <<loaded, load_status>>
    /\ UNCHANGED file
    /\ UNCHANGED <<countVars, normVars, protectVars, codecVars>>

\* line 221: the file is exhausted and the table is returned
ReturnLoaded ==
    /\ load_status = "reading"
    /\ line_no = Len(file)
    /\ load_status' = "returned"
    /\ UNCHANGED <<file, line_no, loaded>>
    /\ UNCHANGED <<countVars, normVars, protectVars, codecVars>>

NextLoad == SkipHeader \/ ReadLine \/ ReturnLoaded

SpecLoad == InitLoad /\ [][NextLoad]_vars

\* a data line with exactly two tab-separated columns, a numeric count and a
\* combo string whose every segment has exactly one ':'
WellFormedLine(line) ==
    LET cols == split(line, "\t")
    IN  /\ Len(cols) = 2
        /\ strip(cols[1]) # <<>>
        /\ IsInt(strip(cols[2]))
        /\ \A seg \in Range(split(strip(cols[1]), ";")) :
              Cardinality({ i \in 1..Len(seg) : seg[i] = ":" }) = 1

\* C8: loading never fails on a malformed data line, and once the load has
\* returned every well-formed line of the file is in the table with the count
\* of the last well-formed line for its combo.
C8_AsStated ==
    /\ load_status \notin { "IndexError", "ValueError" }
    /\ load_status = "returned" =>
          \A n \in 2..Len(file) :
              WellFormedLine(file[n]) =>
                  LET lc == stringToLengthAndCombo(Parts(file[n])[1])
                  IN  /\ lc.length \in DOMAIN loaded
                      /\ lc.combo \in DOMAIN loaded[lc.length]

=============================================================================
